---- MODULE Spec2Model ----
(***************************************************************************)
(* Model of the entity reconstruction and categorisation pipeline of       *)
(* transcribe-ner: MedicalNERHF.process_medical_text (medical_ner_hf.py)   *)
(* and extract_medical_entities (app.py).                                  *)
(*                                                                         *)
(* Representation.  A Python str is a sequence of one-character strings,   *)
(* so that slicing, strip, rstrip and the substring test `in` are computed *)
(* character by character.  A dict is a function on the keys it holds; an  *)
(* absent key is absent from the DOMAIN.  A score is written in hundredths *)
(* (0.9 is 90).  Python None and a JSON null are [kind |-> "null"].  An    *)
(* f-string is the sequence of its parts, an interpolated number being     *)
(* formatted by ToString.  Python indexes from 0; the loop indices i, j, k *)
(* of the model are 1-based.                                               *)
(***************************************************************************)
EXTENDS Integers, Sequences, FiniteSets, TLC

\* Largest number of raw entities in an upstream answer.
MaxEntities == 3

\* Largest number of raw entities in a list handed to one of two interleaved calls.
MaxCoreEntities == 2

(***************************************************************************)
(* Python built-ins used by the code                                       *)
(***************************************************************************)

\* str.strip() with no argument removes the characters c with c.isspace(): space,
\* tab, newline, carriage return, form feed, then (written raw, in this order) the
\* vertical tab U+000B, the separators U+001C, U+001D, U+001E, U+001F, the next-line
\* character U+0085, the no-break space U+00A0 and the ogham space U+1680.  The other
\* spaces of Python (U+2000..U+200A, U+2028, U+2029, U+202F, U+205F, U+3000) cannot
\* be written in a string of a module, so no text or word here can hold one.
Whitespace ==
    {" ", "\t", "\n", "\r", "\f",
     "", "", "", "", "", "", " ", " "}

\* The argument of rstrip('.,;:!?').
Punctuation == {".", ",", ";", ":", "!", "?"}

Max(a, b) == IF a >= b THEN a ELSE b

Min(a, b) == IF a <= b THEN a ELSE b

\* dict.get(k, d)
Get(e, k, d) == IF k \in DOMAIN e THEN e[k] ELSE d

\* s.rstrip(chars)
RECURSIVE rstrip(_, _)
rstrip(s, chars) ==
    IF s # <<>> /\ s[Len(s)] \in chars
    THEN rstrip(SubSeq(s, 1, Len(s) - 1), chars)
    ELSE s

\* s.lstrip()
RECURSIVE lstrip(_, _)
lstrip(s, chars) ==
    IF s # <<>> /\ s[1] \in chars
    THEN lstrip(Tail(s), chars)
    ELSE s

\* s.strip()
strip(s) == rstrip(lstrip(s, Whitespace), Whitespace)

\* s[lo:hi] with Python's treatment of negative and oversized indices.
SliceIndex(n, len) == IF n < 0 THEN Max(n + len, 0) ELSE Min(n, len)

Slice(s, lo, hi) ==
    SubSeq(s, SliceIndex(lo, Len(s)) + 1, SliceIndex(hi, Len(s)))

\* key in label, for two strs
Contains(key, label) ==
    \E p \in 0..(Len(label) - Len(key)) : SubSeq(label, p + 1, p + Len(key)) = key

\* x in lst, for a list
InList(x, lst) == \E p \in 1..Len(lst) : lst[p] = x

None == [kind |-> "null"]

(***************************************************************************)
(* Inputs: transcripts, labels and raw entities the upstream may answer    *)
(***************************************************************************)

\* "Patient has hypertension today."  (31 characters)
Text1 == <<"P", "a", "t", "i", "e", "n", "t", " ", "h", "a", "s", " ", "h", "y", "p", "e", "r", "t", "e", "n", "s", "i", "o", "n", " ", "t", "o", "d", "a", "y", ".">>

\* "a flu\n"  (6 characters, the last a newline)
Text2 == <<"a", " ", "f", "l", "u", "\n">>

Texts == {Text1, Text2}

hyper == <<"h", "y", "p", "e", "r">>
tension == <<"t", "e", "n", "s", "i", "o", "n">>
hypertension == hyper \o tension
hyperDot == <<"h", "y", "p", "e", "r", ".">>
today == <<"t", "o", "d", "a", "y">>
has == <<"h", "a", "s">>
ab == <<"a", "b">>
aDotPadded == <<"\t", "a", ".", "">>

DISEASE == <<"D", "I", "S", "E", "A", "S", "E">>
DRUG == <<"D", "R", "U", "G">>
SYMPTOM == <<"S", "Y", "M", "P", "T", "O", "M">>
PROCEDURE == <<"P", "R", "O", "C", "E", "D", "U", "R", "E">>
Diagnostic_procedure == <<"D", "i", "a", "g", "n", "o", "s", "t", "i", "c", "_", "p", "r", "o", "c", "e", "d", "u", "r", "e">>
Medication == <<"M", "e", "d", "i", "c", "a", "t", "i", "o", "n">>
Sign_symptom == <<"S", "i", "g", "n", "_", "s", "y", "m", "p", "t", "o", "m">>
B_DISEASE == <<"B", "-", "D", "I", "S", "E", "A", "S", "E">>
DRUG_DISEASE == <<"D", "R", "U", "G", "-", "D", "I", "S", "E", "A", "S", "E">>
MISC == <<"M", "I", "S", "C">>

\* The two fragments of end-to-end scenario 1.
Frag1 == [word |-> hyper, entity |-> DISEASE, start |-> 20, end |-> 25, score |-> 90]
Frag2 == [word |-> tension, entity |-> DISEASE, start |-> 25, end |-> 32, score |-> 80]

\* The same word at its true offsets in Text1, with differing labels and scores.
Head1 == [word |-> hyper, entity |-> B_DISEASE, start |-> 12, end |-> 17, score |-> 90]
Tail1 == [word |-> tension, entity_group |-> DRUG, start |-> 17, end |-> 24, score |-> 80]

\* No word field, offsets of "Patient" in Text1.
NoWord == [entity |-> DISEASE, start |-> 0, end |-> 7, score |-> 40]

\* Empty label fields.
NoLabel == [word |-> has, entity |-> <<>>, entity_group |-> <<>>, start |-> 8, end |-> 11, score |-> 50]

\* Offsets beyond both texts; cleans to "hyper".
FarDrug == [word |-> hyperDot, entity |-> DRUG_DISEASE, entity_group |-> MISC, start |-> 40, end |-> 46, score |-> 30]
FarMed == [word |-> hyperDot, entity |-> Medication, start |-> 50, end |-> 56]

\* Unmapped label, with and without a score; the second has no end.
Misc1 == [word |-> today, entity |-> MISC, start |-> 25, end |-> 31, score |-> 70]
Misc2 == [word |-> today, entity_group |-> MISC, start |-> 60]

\* A negative start.
NegStart == [word |-> ab, entity |-> Sign_symptom, start |-> 0 - 3, end |-> 6, score |-> 60]

\* Cleans to the single character "a".
Short == [word |-> aDotPadded, entity |-> Diagnostic_procedure, start |-> 70, end |-> 74, score |-> 20]

EntityPool == {Frag1, Frag2, Head1, Tail1, NoWord, NoLabel, FarDrug, FarMed, Misc1, Misc2, NegStart, Short}

RECURSIVE SeqsUpTo(_, _)
SeqsUpTo(S, n) ==
    IF n = 0 THEN {<<>>}
    ELSE LET shorter == SeqsUpTo(S, n - 1)
         IN  shorter \cup {Append(q, x) : q \in {r \in shorter : Len(r) = n - 1}, x \in S}

EntityLists == SeqsUpTo(EntityPool, MaxEntities)

\* JSON payloads of a 200 answer that are not a list of entities.  A JSON object is
\* the sequence of its <<key, value>> pairs.
ErrorEnvelope == [kind |-> "dict", pairs |-> << <<"error", "rate limited">> >>]
EmptyDict == [kind |-> "dict", pairs |-> <<>>]
OtherDict == [kind |-> "dict", pairs |-> << <<"message", "loading">> >>]
Number == [kind |-> "int", number |-> 5]
EmptyString == [kind |-> "str", chars |-> <<>>]

\* key in d, for a dict payload
DictHas(d, key) == \E p \in 1..Len(d.pairs) : d.pairs[p][1] = key

\* d.get(key, default), for a dict payload
DictGet(d, key, default) ==
    IF DictHas(d, key)
    THEN d.pairs[CHOOSE p \in 1..Len(d.pairs) : d.pairs[p][1] = key][2]
    ELSE default

NonListPayloads == {ErrorEnvelope, EmptyDict, OtherDict, None, Number, EmptyString}

ListPayload(items) == [kind |-> "list", value |-> items]

\* response.json() raises on a body that is not JSON; message is str(e).
NotJson == [kind |-> "raises", message |-> "Expecting value: line 1 column 1 (char 0)"]

\* The outcomes of requests.post: an answer with its status code, parsed JSON payload
\* and raw body, or an exception, [raised |-> str(e)].
Responses ==
    {[status_code |-> 200, json |-> ListPayload(items), text |-> "[...]"] : items \in EntityLists}
    \cup {[status_code |-> 200, json |-> p, text |-> "{...}"] : p \in NonListPayloads}
    \cup {[status_code |-> 200, json |-> NotJson, text |-> "<html>"]}
    \cup {[status_code |-> 503, json |-> None, text |-> "Service Unavailable"],
          [status_code |-> 401, json |-> ErrorEnvelope, text |-> "Unauthorized"]}
    \cup {[raised |-> "boom"], [raised |-> "network unreachable"], [raised |-> ""]}

\* requests.post returned an answer.
Answered(resp) == "status_code" \in DOMAIN resp

\* requests.post raises or, on status 200, response.json() raises.
PostRaises(resp) ==
    IF Answered(resp) THEN resp.status_code = 200 /\ resp.json.kind = "raises" ELSE TRUE

\* str(e) of the exception that requests.post or response.json() raises; it may be
\* empty (TimeoutError()).
PostException(resp) ==
    IF ~Answered(resp) THEN resp.raised ELSE resp.json.message

(***************************************************************************)
(* State                                                                   *)
(***************************************************************************)
VARIABLES
    caller,              \* "hf": MedicalNERHF.process_medical_text, "app": app.extract_medical_entities
    transcription,       \* the text argument
    response,            \* the answer of requests.post
    pc,                  \* position in the called function
    raw_entities,        \* local raw_entities
    i,                   \* _reconstruct_entities: index of the group's first fragment
    reconstructed,       \* _reconstruct_entities: local reconstructed
    processed_entities,  \* process_medical_text: local processed_entities
    k,                   \* index of the entity the categorisation loop is at
    medical_entities,    \* the five-bucket dict under construction
    result,              \* the returned value
    heap,                \* two interleaved calls: the raw entity lists, as objects
    calls                \* two interleaved calls: the locals of each call

vars == <<caller, transcription, response, pc, raw_entities, i, reconstructed,
          processed_entities, k, medical_entities, result, heap, calls>>

Init ==
    /\ caller \in {"hf", "app"}
    /\ transcription \in Texts
    /\ response \in Responses
    /\ pc = "post"
    /\ raw_entities = None
    /\ i = 0
    /\ reconstructed = <<>>
    /\ processed_entities = None
    /\ k = 0
    /\ medical_entities = None
    /\ result = None
    /\ heap = <<>>
    /\ calls = <<>>

(***************************************************************************)
(* medical_ner_hf.py                                                       *)
(***************************************************************************)

\* extract_entities: the parsed payload on 200; None on another status and when
\* requests.post or response.json() raises.
extract_entities(resp) ==
    IF PostRaises(resp) THEN None
    ELSE IF resp.status_code = 200 THEN resp.json
    ELSE None

\* MergeScan taking the absorbed fragment's end instead of the maximum of the ends.
RECURSIVE MergeScan_LastEnd(_, _, _)
MergeScan_LastEnd(entities, j, end_pos) ==
    IF j <= Len(entities)
    THEN LET next_entity == entities[j]
             next_start == Get(next_entity, "start", 0)
         IN  IF next_start <= end_pos + 2
             THEN MergeScan_LastEnd(entities, j + 1, Get(next_entity, "end", next_start))
             ELSE [j |-> j, end_pos |-> end_pos]
    ELSE [j |-> j, end_pos |-> end_pos]

\* The inner while loop of _reconstruct_entities: absorb fragments from j on.
RECURSIVE MergeScan(_, _, _)
MergeScan(entities, j, end_pos) ==
    IF j <= Len(entities)
    THEN LET next_entity == entities[j]
             next_start == Get(next_entity, "start", 0)
         IN  IF next_start <= end_pos + 2
             THEN MergeScan(entities, j + 1, Max(end_pos, Get(next_entity, "end", next_start)))
             ELSE [j |-> j, end_pos |-> end_pos]
    ELSE [j |-> j, end_pos |-> end_pos]

\* current['word'] = w
SetWord(current, w) ==
    [f \in DOMAIN current \cup {"word"} |-> IF f = "word" THEN w ELSE current[f]]

\* ExtractText without the bounds test: the slice is always taken.
ExtractText_Unchecked(current, start_pos, end_pos, original_text) ==
    SetWord(current, rstrip(strip(Slice(original_text, start_pos, end_pos)), Punctuation))

\* The word assignment that ends one group of _reconstruct_entities.
ExtractText(current, start_pos, end_pos, original_text) ==
    IF start_pos < Len(original_text) /\ end_pos <= Len(original_text)
    THEN SetWord(current, rstrip(strip(Slice(original_text, start_pos, end_pos)), Punctuation))
    ELSE current

\* ReconstructGroup copying the last absorbed fragment instead of the first.
ReconstructGroup_LastFragment(entities, first, original_text) ==
    LET head == entities[first]
        start_pos == Get(head, "start", 0)
        end_pos == Get(head, "end", start_pos)
        scan == MergeScan(entities, first + 1, end_pos)
        current == entities[scan.j - 1]
    IN  [entity |-> ExtractText(current, start_pos, scan.end_pos, original_text),
         j |-> scan.j]

\* One iteration of the outer while loop of _reconstruct_entities, from index i.
ReconstructGroup(entities, first, original_text) ==
    LET current == entities[first]
        start_pos == Get(current, "start", 0)
        end_pos == Get(current, "end", start_pos)
        scan == MergeScan(entities, first + 1, end_pos)
    IN  [entity |-> ExtractText(current, start_pos, scan.end_pos, original_text),
         j |-> scan.j]

\* The list after an iteration that assigns the word to entities[i] itself, not to a copy.
EntitiesAfterGroup_NoCopy(entities, first, original_text) ==
    [entities EXCEPT ![first] = ReconstructGroup(entities, first, original_text).entity]

\* The list entities after one iteration of the outer loop: current is
\* entities[i].copy(), so the assignment to current['word'] leaves the list as it was.
EntitiesAfterGroup(entities, first, original_text) == entities

\* The whole of _reconstruct_entities.
RECURSIVE ReconstructFrom(_, _, _)
ReconstructFrom(entities, first, original_text) ==
    IF first > Len(entities) THEN <<>>
    ELSE LET g == ReconstructGroup(entities, first, original_text)
         IN  <<g.entity>> \o ReconstructFrom(entities, g.j, original_text)

_reconstruct_entities(entities, original_text) ==
    IF entities = <<>> THEN entities ELSE ReconstructFrom(entities, 1, original_text)

EmptyBuckets ==
    [diseases |-> <<>>, medications |-> <<>>, symptoms |-> <<>>, procedures |-> <<>>,
     other |-> <<>>]

\* entity_category_map with DRUG declared before DISEASE.
entity_category_map_DrugFirst ==
    << <<DRUG, "medications">>, <<DISEASE, "diseases">>, <<SYMPTOM, "symptoms">>,
       <<PROCEDURE, "procedures">>, <<Diagnostic_procedure, "procedures">>,
       <<Medication, "medications">>, <<Sign_symptom, "symptoms">> >>

\* entity_category_map, in its declared order.
entity_category_map ==
    << <<DISEASE, "diseases">>, <<DRUG, "medications">>, <<SYMPTOM, "symptoms">>,
       <<PROCEDURE, "procedures">>, <<Diagnostic_procedure, "procedures">>,
       <<Medication, "medications">>, <<Sign_symptom, "symptoms">> >>

\* entity.get('entity', '') or entity.get('entity_group', '')
EntityGroup(entity) ==
    IF Get(entity, "entity", <<>>) # <<>> THEN Get(entity, "entity", <<>>)
    ELSE Get(entity, "entity_group", <<>>)

\* entity_word.strip().rstrip('.,;:!?')
CleanWord(entity_word) == rstrip(strip(entity_word), Punctuation)

\* category = None
NoCategory == "None"

\* The for loop over entity_category_map: the value of the first key in the group, or None.
RECURSIVE MapFrom(_, _, _)
MapFrom(map, n, entity_group) ==
    IF n > Len(map) THEN NoCategory
    ELSE IF Contains(map[n][1], entity_group) THEN map[n][2]
    ELSE MapFrom(map, n + 1, entity_group)

Category(entity_group) == MapFrom(entity_category_map, 1, entity_group)

\* Whether the loop body passes both `continue` statements.
Kept(entity) ==
    /\ Get(entity, "word", <<>>) # <<>>
    /\ EntityGroup(entity) # <<>>
    /\ Len(CleanWord(Get(entity, "word", <<>>))) >= 2

\* The mapping loop without its break: the last matching key wins.
RECURSIVE LastMatchFrom(_, _, _, _)
LastMatchFrom(map, n, entity_group, found) ==
    IF n > Len(map) THEN found
    ELSE LastMatchFrom(map, n + 1, entity_group,
                       IF Contains(map[n][1], entity_group) THEN map[n][2] ELSE found)

\* CategorizeEntity with a parameter for each of three slips: no membership test
\* before the append, a minimum length other than 2, the mapping loop without break.
CategorizeEntityWith(buckets, entity, dedup, min_len, first_match) ==
    LET entity_word == Get(entity, "word", <<>>)
        entity_group == EntityGroup(entity)
        clean_word == CleanWord(entity_word)
        category == IF first_match THEN Category(entity_group)
                    ELSE LastMatchFrom(entity_category_map, 1, entity_group, NoCategory)
    IN  IF entity_word = <<>> \/ entity_group = <<>> THEN buckets
        ELSE IF Len(clean_word) < min_len THEN buckets
        ELSE IF category # NoCategory
        THEN IF dedup /\ InList(clean_word, buckets[category]) THEN buckets
             ELSE [buckets EXCEPT ![category] = Append(@, clean_word)]
        ELSE [buckets EXCEPT !.other =
                Append(@, [word |-> clean_word, type |-> entity_group,
                           confidence |-> Get(entity, "score", 0)])]

CategorizeEntity_NoDedup(buckets, entity) == CategorizeEntityWith(buckets, entity, FALSE, 2, TRUE)

CategorizeEntity_MinLen1(buckets, entity) == CategorizeEntityWith(buckets, entity, TRUE, 1, TRUE)

CategorizeEntity_NoBreak(buckets, entity) == CategorizeEntityWith(buckets, entity, TRUE, 2, FALSE)

\* CategorizeEntity with the membership test made against all four named buckets
\* instead of the entity's own.
CategorizeEntity_AnyBucketDedup(buckets, entity) ==
    LET entity_word == Get(entity, "word", <<>>)
        entity_group == EntityGroup(entity)
        clean_word == CleanWord(entity_word)
        category == Category(entity_group)
        named == {"diseases", "medications", "symptoms", "procedures"}
    IN  IF category # NoCategory /\ \E b \in named : InList(clean_word, buckets[b])
        THEN buckets
        ELSE CategorizeEntityWith(buckets, entity, TRUE, 2, TRUE)

\* One iteration of the categorisation loop of process_medical_text.
CategorizeEntity(buckets, entity) ==
    LET entity_word == Get(entity, "word", <<>>)
        entity_group == EntityGroup(entity)
        clean_word == CleanWord(entity_word)
        category == Category(entity_group)
    IN  IF entity_word = <<>> \/ entity_group = <<>> THEN buckets
        ELSE IF Len(clean_word) < 2 THEN buckets
        ELSE IF category # NoCategory
        THEN IF InList(clean_word, buckets[category]) THEN buckets
             ELSE [buckets EXCEPT ![category] = Append(@, clean_word)]
        ELSE [buckets EXCEPT !.other =
                Append(@, [word |-> clean_word, type |-> entity_group,
                           confidence |-> Get(entity, "score", 0)])]

\* The whole categorisation loop of process_medical_text, from entity n on.
RECURSIVE CategorizeFrom(_, _, _)
CategorizeFrom(buckets, entities, n) ==
    IF n > Len(entities) THEN buckets
    ELSE CategorizeFrom(CategorizeEntity(buckets, entities[n]), entities, n + 1)

\* process_medical_text from the reconstruction on: what it returns for a raw list.
CategorizedResult(entities, original_text) ==
    CategorizeFrom(EmptyBuckets, _reconstruct_entities(entities, original_text), 1)

\* process_medical_text calls extract_entities.
HFExtractEntities ==
    /\ caller = "hf" /\ pc = "post"
    /\ raw_entities' = extract_entities(response)
    /\ pc' = "check"
    /\ UNCHANGED <<heap, calls, caller, transcription, response, i, reconstructed, processed_entities,
                   k, medical_entities, result>>

\* if raw_entities is None
HFReturnApiError ==
    /\ caller = "hf" /\ pc = "check"
    /\ raw_entities = None
    /\ result' = [error |-> <<"Failed to extract entities - API error">>]
    /\ pc' = "done"
    /\ UNCHANGED <<heap, calls, caller, transcription, response, raw_entities, i, reconstructed,
                   processed_entities, k, medical_entities>>

\* if isinstance(raw_entities, dict) and "error" in raw_entities
HFReturnErrorEnvelope ==
    /\ caller = "hf" /\ pc = "check"
    /\ raw_entities # None
    /\ raw_entities.kind = "dict" /\ DictHas(raw_entities, "error")
    /\ result' = [error |-> <<"API Error: ", DictGet(raw_entities, "error", "Unknown error")>>]
    /\ pc' = "done"
    /\ UNCHANGED <<heap, calls, caller, transcription, response, raw_entities, i, reconstructed,
                   processed_entities, k, medical_entities>>

\* if not isinstance(raw_entities, list)
HFReturnUnexpected ==
    /\ caller = "hf" /\ pc = "check"
    /\ raw_entities # None
    /\ ~(raw_entities.kind = "dict" /\ DictHas(raw_entities, "error"))
    /\ raw_entities.kind # "list"
    /\ result' = [error |-> <<"Unexpected API response format">>]
    /\ pc' = "done"
    /\ UNCHANGED <<heap, calls, caller, transcription, response, raw_entities, i, reconstructed,
                   processed_entities, k, medical_entities>>

\* _reconstruct_entities on an empty list: the list itself is returned.
ReconstructEmpty ==
    /\ caller = "hf" /\ pc = "check"
    /\ raw_entities.kind = "list" /\ raw_entities.value = <<>>
    /\ processed_entities' = raw_entities.value
    /\ medical_entities' = EmptyBuckets
    /\ k' = 1
    /\ pc' = "categorize"
    /\ UNCHANGED <<heap, calls, caller, transcription, response, raw_entities, i, reconstructed, result>>

\* _reconstruct_entities on a non-empty list: reconstructed = [], i = 0.
ReconstructBegin ==
    /\ caller = "hf" /\ pc = "check"
    /\ raw_entities.kind = "list" /\ raw_entities.value # <<>>
    /\ reconstructed' = <<>>
    /\ i' = 1
    /\ pc' = "reconstruct"
    /\ UNCHANGED <<heap, calls, caller, transcription, response, raw_entities, processed_entities,
                   k, medical_entities, result>>

\* One iteration of while i < len(entities).
ReconstructStep ==
    /\ caller = "hf" /\ pc = "reconstruct"
    /\ i <= Len(raw_entities.value)
    /\ LET g == ReconstructGroup(raw_entities.value, i, transcription)
       IN  /\ reconstructed' = Append(reconstructed, g.entity)
           /\ i' = g.j
    /\ raw_entities' =
          [raw_entities EXCEPT !.value = EntitiesAfterGroup(@, i, transcription)]
    /\ UNCHANGED <<heap, calls, caller, transcription, response, pc, processed_entities,
                   k, medical_entities, result>>

\* return reconstructed, and the fresh medical_entities dict.
ReconstructReturn ==
    /\ caller = "hf" /\ pc = "reconstruct"
    /\ i > Len(raw_entities.value)
    /\ processed_entities' = reconstructed
    /\ medical_entities' = EmptyBuckets
    /\ k' = 1
    /\ pc' = "categorize"
    /\ UNCHANGED <<heap, calls, caller, transcription, response, raw_entities, i, reconstructed, result>>

\* One iteration of for entity in processed_entities.
HFCategorizeStep ==
    /\ caller = "hf" /\ pc = "categorize"
    /\ k <= Len(processed_entities)
    /\ medical_entities' = CategorizeEntity(medical_entities, processed_entities[k])
    /\ k' = k + 1
    /\ UNCHANGED <<heap, calls, caller, transcription, response, pc, raw_entities, i, reconstructed,
                   processed_entities, result>>

\* return medical_entities
HFReturn ==
    /\ caller = "hf" /\ pc = "categorize"
    /\ k > Len(processed_entities)
    /\ result' = medical_entities
    /\ pc' = "done"
    /\ UNCHANGED <<heap, calls, caller, transcription, response, raw_entities, i, reconstructed,
                   processed_entities, k, medical_entities>>

(***************************************************************************)
(* app.py                                                                  *)
(***************************************************************************)

\* entity_category_map of extract_medical_entities, in its declared order.
app_entity_category_map ==
    << <<DISEASE, "diseases">>, <<DRUG, "medications">>, <<SYMPTOM, "symptoms">>,
       <<PROCEDURE, "procedures">>, <<Diagnostic_procedure, "procedures">>,
       <<Medication, "medications">>, <<Sign_symptom, "symptoms">> >>

\* One iteration of the loop of extract_medical_entities.
AppCategorizeEntity(buckets, entity) ==
    LET entity_word == Get(entity, "word", <<>>)
        entity_group == IF Get(entity, "entity", <<>>) # <<>>
                        THEN Get(entity, "entity", <<>>)
                        ELSE Get(entity, "entity_group", <<>>)
        clean_word == rstrip(strip(entity_word), Punctuation)
        category == MapFrom(app_entity_category_map, 1, entity_group)
    IN  IF entity_word = <<>> \/ entity_group = <<>> THEN buckets
        ELSE IF Len(clean_word) < 2 THEN buckets
        ELSE IF category # NoCategory
        THEN IF InList(clean_word, buckets[category]) THEN buckets
             ELSE [buckets EXCEPT ![category] = Append(@, clean_word)]
        ELSE [buckets EXCEPT !.other =
                Append(@, [word |-> clean_word, type |-> entity_group,
                           confidence |-> Get(entity, "score", 0)])]

\* Number of elements `for entity in raw_entities` yields, for an iterable payload.
IterLen(payload) ==
    CASE payload.kind = "dict" -> Len(payload.pairs)
      [] payload.kind = "str" -> Len(payload.chars)
      [] payload.kind = "list" -> Len(payload.value)

\* str(e) of the exception the loop raises on this payload, "" when it raises none.
LoopException(payload) ==
    CASE payload.kind = "null" -> "'NoneType' object is not iterable"
      [] payload.kind = "int" -> "'int' object is not iterable"
      [] payload.kind \in {"dict", "str"} /\ IterLen(payload) > 0 ->
             "'str' object has no attribute 'get'"
      [] OTHER -> ""

\* response.status_code == 200: parse the payload and create the buckets.
AppPostOk ==
    /\ caller = "app" /\ pc = "post"
    /\ ~PostRaises(response)
    /\ response.status_code = 200
    /\ raw_entities' = response.json
    /\ medical_entities' = EmptyBuckets
    /\ k' = 1
    /\ pc' = "categorize"
    /\ UNCHANGED <<heap, calls, caller, transcription, response, i, reconstructed, processed_entities,
                   result>>

\* The else branch of the status test.
AppPostError ==
    /\ caller = "app" /\ pc = "post"
    /\ ~PostRaises(response)
    /\ response.status_code # 200
    /\ result' = [success |-> FALSE,
                  error |-> <<"Hugging Face API error: ", ToString(response.status_code)>>,
                  details |-> response.text]
    /\ pc' = "done"
    /\ UNCHANGED <<heap, calls, caller, transcription, response, raw_entities, i, reconstructed,
                   processed_entities, k, medical_entities>>

\* One iteration of for entity in raw_entities, over a list of dicts.
AppCategorizeStep ==
    /\ caller = "app" /\ pc = "categorize"
    /\ raw_entities.kind = "list"
    /\ k <= Len(raw_entities.value)
    /\ medical_entities' = AppCategorizeEntity(medical_entities, raw_entities.value[k])
    /\ k' = k + 1
    /\ UNCHANGED <<heap, calls, caller, transcription, response, pc, raw_entities, i, reconstructed,
                   processed_entities, result>>

\* The try block raises where the call stands.
Raises ==
    IF pc = "post" THEN PostRaises(response)
    ELSE pc = "categorize" /\ LoopException(raw_entities) # ""

\* str(e) of the exception the try block raises where the call stands.
Raised ==
    IF pc = "post" THEN PostException(response) ELSE LoopException(raw_entities)

\* except Exception as e: whatever requests.post, response.json() or the loop raises.
AppExcept ==
    /\ caller = "app"
    /\ Raises
    /\ result' = [success |-> FALSE,
                  error |-> <<"Failed to extract medical entities">>,
                  details |-> Raised]
    /\ pc' = "done"
    /\ UNCHANGED <<heap, calls, caller, transcription, response, raw_entities, i, reconstructed,
                   processed_entities, k, medical_entities>>

\* The loop is exhausted: return the buckets.
AppReturn ==
    /\ caller = "app" /\ pc = "categorize"
    /\ LoopException(raw_entities) = ""
    /\ k > IterLen(raw_entities)
    /\ result' = [success |-> TRUE, data |-> medical_entities]
    /\ pc' = "done"
    /\ UNCHANGED <<heap, calls, caller, transcription, response, raw_entities, i, reconstructed,
                   processed_entities, k, medical_entities>>

Next ==
    \/ HFExtractEntities
    \/ HFReturnApiError
    \/ HFReturnErrorEnvelope
    \/ HFReturnUnexpected
    \/ ReconstructEmpty
    \/ ReconstructBegin
    \/ ReconstructStep
    \/ ReconstructReturn
    \/ HFCategorizeStep
    \/ HFReturn
    \/ AppPostOk
    \/ AppPostError
    \/ AppCategorizeStep
    \/ AppExcept
    \/ AppReturn

Spec == Init /\ [][Next]_vars

TypeOK ==
    /\ caller \in {"hf", "app"}
    /\ pc \in {"post", "check", "reconstruct", "categorize", "done"}
    /\ i \in 0..(MaxEntities + 1)
    /\ k \in 0..(MaxEntities + 1)

(***************************************************************************)
(* Properties                                                              *)
(***************************************************************************)

NamedBuckets == {"diseases", "medications", "symptoms", "procedures"}

\* The call returned a five-bucket result.
Succeeded ==
    /\ pc = "done"
    /\ IF caller = "hf" THEN "diseases" \in DOMAIN result ELSE result.success

\* The buckets of a successful result.
Returned == IF caller = "hf" THEN result ELSE result.data

\* The entities the categorisation loop of a successful call went over.
Looped ==
    IF caller = "hf" THEN processed_entities
    ELSE IF raw_entities.kind = "list" THEN raw_entities.value
    ELSE <<>>

\* The looped entities that pass both filters, clean to term and map to bucket.
Producers(term, bucket) ==
    {m \in 1..Len(Looped) :
        /\ Kept(Looped[m])
        /\ CleanWord(Looped[m].word) = term
        /\ Category(EntityGroup(Looped[m])) = bucket}

FirstProducer(term, bucket) ==
    CHOOSE m \in Producers(term, bucket) : \A n \in Producers(term, bucket) : m <= n

\* C1: in a successful result of either entry point, each of the four named buckets
\* holds no string twice, and its strings stand in the order of the first looped
\* entity that produced each of them.
C1_UniqueInFirstOccurrenceOrder ==
    Succeeded =>
        \A b \in NamedBuckets :
            /\ \A p \in 1..Len(Returned[b]) : Producers(Returned[b][p], b) # {}
            /\ \A p, q \in 1..Len(Returned[b]) :
                  p < q => /\ Returned[b][p] # Returned[b][q]
                           /\ FirstProducer(Returned[b][p], b) < FirstProducer(Returned[b][q], b)

\* A call of process_medical_text returned two diseases, the first of them produced
\* by two entities, with the other one's producer between the two.
C1_Witness ==
    /\ Succeeded /\ caller = "hf"
    /\ Len(result.diseases) = 2
    /\ \E m, n \in Producers(result.diseases[1], "diseases") :
          m < FirstProducer(result.diseases[2], "diseases")
          /\ FirstProducer(result.diseases[2], "diseases") < n

\* C2 as stated: in a successful result no term is in two of the four named buckets.
C2_NoTermInTwoBuckets ==
    Succeeded =>
        \A b1, b2 \in NamedBuckets :
            b1 # b2 => \A p \in 1..Len(Returned[b1]) : ~InList(Returned[b1][p], Returned[b2])

\* The terms of a successful call: the strings of its named buckets and the cleaned
\* words of the looped entities that pass both filters.
Terms ==
    {Returned[b][p] : <<b, p>> \in {bp \in NamedBuckets \X (1..MaxEntities) :
                                        bp[2] <= Len(Returned[bp[1]])}}
    \cup {CleanWord(Looped[m].word) : m \in {n \in 1..Len(Looped) : Kept(Looped[n])}}

\* C2 amended: in a successful result a term is in two different named buckets
\* exactly when it arrived twice in the categorisation loop, from one looped entity
\* that passes both filters and whose label maps to the one bucket, and from another
\* whose label maps to the other.  The looped entities of process_medical_text are
\* the reconstructed ones, so a fragment absorbed into a group does not count.
C2_TwoBucketsExactlyByTwoLabels ==
    Succeeded =>
        \A b1, b2 \in NamedBuckets :
            b1 # b2 =>
                \A term \in Terms :
                    (InList(term, Returned[b1]) /\ InList(term, Returned[b2]))
                        <=> (Producers(term, b1) # {} /\ Producers(term, b2) # {})

\* process_medical_text returned the same term as a disease and as a medication.
C2_Witness ==
    /\ Succeeded /\ caller = "hf"
    /\ \E p \in 1..Len(result.diseases) : InList(result.diseases[p], result.medications)

\* The call of end-to-end scenario 1 has returned.
Scenario1 ==
    /\ caller = "hf" /\ pc = "done"
    /\ transcription = Text1
    /\ Answered(response) /\ response.status_code = 200
    /\ response.json = ListPayload(<<Frag1, Frag2>>)

\* C3 as stated: scenario 1 yields one entity whose word is "hypertension" and the
\* diseases bucket ["hypertension"].
C3_Scenario1Hypertension ==
    Scenario1 =>
        /\ Len(processed_entities) = 1
        /\ processed_entities[1].word = hypertension
        /\ result.diseases = <<hypertension>>

\* C3 amended: scenario 1 yields one entity, the first fragment with its own word
\* "hyper" (the merged end 32 is past the 31 characters of the text, so no slice is
\* taken), and a result whose diseases bucket is ["hyper"], the other buckets empty.
C3_Scenario1Hyper ==
    Scenario1 =>
        /\ processed_entities = <<Frag1>>
        /\ result = [EmptyBuckets EXCEPT !.diseases = <<hyper>>]

C3_Witness == Scenario1 /\ result.diseases = <<hyper>>

\* The index of the first fragment of every merge group, in order.
RECURSIVE GroupFirstsFrom(_, _)
GroupFirstsFrom(entities, first) ==
    IF first > Len(entities) THEN <<>>
    ELSE LET start_pos == Get(entities[first], "start", 0)
             end_pos == Get(entities[first], "end", start_pos)
         IN  <<first>> \o GroupFirstsFrom(entities, MergeScan(entities, first + 1, end_pos).j)

\* The end of the window of the group that begins at first, after merging.
GroupEnd(entities, first) ==
    LET start_pos == Get(entities[first], "start", 0)
    IN  MergeScan(entities, first + 1, Get(entities[first], "end", start_pos)).end_pos

\* _reconstruct_entities is running or has run on a non-empty list.
Reconstructing ==
    /\ caller = "hf" /\ pc \in {"reconstruct", "categorize", "done"}
    /\ raw_entities.kind = "list" /\ raw_entities.value # <<>>

\* C4 as stated: a group whose start or merged end lies outside [0, len(text)] yields
\* its first fragment unchanged, so the word is replaced only when both are inside.
C4_OutOfRangeKeepsFragment ==
    Reconstructing =>
        \A m \in 1..Len(reconstructed) :
            LET first == GroupFirstsFrom(raw_entities.value, 1)[m]
                start_pos == Get(raw_entities.value[first], "start", 0)
                end_pos == GroupEnd(raw_entities.value, first)
                inside(n) == 0 <= n /\ n <= Len(transcription)
            IN  ~(inside(start_pos) /\ inside(end_pos)) =>
                    reconstructed[m] = raw_entities.value[first]

\* The raw entity has no word, or neither an entity nor an entity_group.
Degenerate(entity) ==
    \/ Get(entity, "word", <<>>) = <<>>
    \/ (Get(entity, "entity", <<>>) = <<>> /\ Get(entity, "entity_group", <<>>) = <<>>)

\* The raw entity the k-th iteration of the categorisation loop stems from.
RawOf(n) ==
    IF caller = "hf" THEN raw_entities.value[GroupFirstsFrom(raw_entities.value, 1)[n]]
    ELSE raw_entities.value[n]

\* The step is an iteration of the categorisation loop of either entry point.
LoopIteration == pc = "categorize" /\ k' = k + 1

\* C5 as stated: the loop iteration for a raw entity without a word or without a
\* label adds nothing to any of the five buckets, also after span reconstruction.
C5_DegenerateAddsNothing ==
    [][(LoopIteration /\ Degenerate(RawOf(k))) => medical_entities' = medical_entities]_vars

\* Every string of the four named buckets and every word of other has 2 characters or more.
MinLength(buckets) ==
    /\ \A b \in NamedBuckets : \A p \in 1..Len(buckets[b]) : Len(buckets[b][p]) >= 2
    /\ \A p \in 1..Len(buckets.other) : Len(buckets.other[p].word) >= 2

\* C6: an iteration over an entity whose word, stripped of surrounding whitespace and
\* then of trailing . , ; : ! ?, has fewer than 2 characters appends nothing; and every
\* string in a named bucket and every word in other has at least 2 characters.
C6_ShortWordsDropped ==
    /\ [](medical_entities # None => MinLength(medical_entities))
    /\ [](Succeeded => MinLength(Returned))
    /\ [][(LoopIteration
           /\ Len(rstrip(strip(Get(Looped[k], "word", <<>>)), Punctuation)) < 2)
          => medical_entities' = medical_entities]_vars

\* process_medical_text looped over a labelled entity whose non-empty word cleans to
\* fewer than 2 characters, and returned a disease from another entity.
C6_Witness ==
    /\ Succeeded /\ caller = "hf"
    /\ result.diseases # <<>>
    /\ \E m \in 1..Len(Looped) :
          /\ ~Degenerate(Looped[m])
          /\ Len(CleanWord(Looped[m].word)) < 2

\* The CategoryMap in the order the claim declares it.
DeclaredOrder ==
    << <<DISEASE, "diseases">>, <<DRUG, "medications">>, <<SYMPTOM, "symptoms">>,
       <<PROCEDURE, "procedures">>, <<Diagnostic_procedure, "procedures">>,
       <<Medication, "medications">>, <<Sign_symptom, "symptoms">> >>

\* The positions of DeclaredOrder whose key is in the label and has no earlier such key.
FirstKeys(label) ==
    {m \in 1..Len(DeclaredOrder) :
        /\ Contains(DeclaredOrder[m][1], label)
        /\ \A n \in 1..(m - 1) : ~Contains(DeclaredOrder[n][1], label)}

\* What one loop iteration over a kept entity must make of the buckets.
Routed(buckets, entity) ==
    LET label == IF Get(entity, "entity", <<>>) # <<>> THEN entity.entity
                 ELSE entity.entity_group
        word == rstrip(strip(entity.word), Punctuation)
    IN  IF FirstKeys(label) # {}
        THEN LET b == DeclaredOrder[CHOOSE m \in FirstKeys(label) : TRUE][2]
             IN  [buckets EXCEPT ![b] = IF InList(word, @) THEN @ ELSE Append(@, word)]
        ELSE [buckets EXCEPT !.other =
                Append(@, [word |-> word, type |-> label,
                           confidence |-> Get(entity, "score", 0)])]

\* C7: an iteration over an entity that passes the degenerate filter changes exactly
\* one bucket: that of the first key, in declared order, that is a substring of the
\* label (entity if non-empty, else entity_group), where the cleaned word is appended
\* unless present; or, when no key is a substring, other, where the record
\* {word, type: label, confidence: score or 0} is appended without dedup.
C7_RoutedToExactlyOnePlace ==
    [][(LoopIteration /\ Kept(Looped[k]))
       => medical_entities' = Routed(medical_entities, Looped[k])]_vars

\* process_medical_text returned two other records with the same word and a disease
\* from a label that holds the keys DRUG and DISEASE, in that order.
C7_Witness ==
    /\ Succeeded /\ caller = "hf"
    /\ Len(result.other) = 2 /\ result.other[1].word = result.other[2].word
    /\ result.other[2].confidence = 0
    /\ result.diseases # <<>>
    /\ \E m \in 1..Len(Looped) : Kept(Looped[m]) /\ EntityGroup(Looped[m]) = DRUG_DISEASE

\* Both records hold the field with the same value, or neither holds it.
SameField(a, b, f) ==
    /\ f \in DOMAIN a <=> f \in DOMAIN b
    /\ f \in DOMAIN a => a[f] = b[f]

\* C8: the output of _reconstruct_entities has one entity per merge group, in the order
\* of the groups' first fragments, and the entity, entity_group, score and start of
\* each output entity are those of the first fragment of its group.
C8_FirstFragmentDetermines ==
    Reconstructing =>
        LET firsts == GroupFirstsFrom(raw_entities.value, 1)
        IN  /\ Len(reconstructed) <= Len(firsts)
            /\ \A m \in 1..Len(reconstructed) :
                  \A f \in {"entity", "entity_group", "score", "start"} :
                      SameField(reconstructed[m], raw_entities.value[firsts[m]], f)
            /\ pc # "reconstruct" =>
                  /\ processed_entities = reconstructed
                  /\ Len(processed_entities) = Len(firsts)
            /\ \A m \in 1..(Len(firsts) - 1) : firsts[m] < firsts[m + 1]

\* Three fragments made two groups, the first of two fragments with different labels
\* and scores, reconstructed to "hypertension".
C8_Witness ==
    /\ Reconstructing /\ pc = "done"
    /\ Len(raw_entities.value) = 3
    /\ GroupFirstsFrom(raw_entities.value, 1) = <<1, 3>>
    /\ EntityGroup(raw_entities.value[1]) # EntityGroup(raw_entities.value[2])
    /\ Get(raw_entities.value[1], "score", 0) # Get(raw_entities.value[2], "score", 0)
    /\ Get(processed_entities[1], "word", <<>>) = hypertension

\* C9 as stated: after a non-200 answer the buckets are never created, no bucket
\* result is returned, and the returned failure holds the status code and the body.
C9_FailureReportsStatusAndBody ==
    (Answered(response) /\ response.status_code # 200) =>
        /\ medical_entities = None
        /\ pc = "done" =>
              /\ ~Succeeded
              /\ InList(ToString(response.status_code), result.error)
              /\ \/ InList(response.text, result.error)
                 \/ ("details" \in DOMAIN result /\ result.details = response.text)

\* The failure messages each entry point returns for a non-200 answer.
Non200Messages ==
    IF caller = "hf" THEN {<<"Failed to extract entities - API error">>}
    ELSE {<<"Hugging Face API error: ", ToString(code)>> : code \in {401, 503}}

\* C10 as stated: a 200 answer whose parsed payload is not a list ends in a failure
\* whose message is not the message of a non-200 answer, never in a bucket result.
C10_NonListIsDistinctFailure ==
    (pc = "done" /\ Answered(response) /\ response.status_code = 200
     /\ response.json.kind \notin {"list", "raises"}) =>
        /\ ~Succeeded
        /\ result.error \notin Non200Messages

\* The start of a raw entity, and its end, a missing end being its own start.
StartOf(entity) == Get(entity, "start", 0)

EndOf(entity) == Get(entity, "end", StartOf(entity))

\* The largest end among the entities first..last.
RunningEnd(entities, first, last) ==
    LET ends == {EndOf(entities[m]) : m \in first..last}
    IN  CHOOSE e \in ends : \A other \in ends : other <= e

\* The entities first..(next - 1) form one merge group and entity next begins another.
IsGroup(entities, first, next) ==
    /\ first < next /\ next <= Len(entities) + 1
    /\ \A m \in (first + 1)..(next - 1) :
          StartOf(entities[m]) <= RunningEnd(entities, first, m - 1) + 2
    /\ next <= Len(entities) =>
          StartOf(entities[next]) > RunningEnd(entities, first, next - 1) + 2

\* C12: _reconstruct_entities cuts the input into contiguous merge groups, every
\* input entity in exactly one: from the group's first entity on, the next entity is
\* absorbed iff its start is <= running end + 2, the running end being the largest
\* end seen in the group (a missing end counting as that entity's start), and the
\* first entity beyond that begins the next group; the index i only grows, the loop
\* ends at len(entities) with one output per group, so with at most as many outputs
\* as inputs, and an empty input gives an empty output.
C12_ContiguousMergeGroups ==
    /\ [][(pc = "reconstruct" /\ i' # i) =>
            /\ IsGroup(raw_entities.value, i, i')
            /\ Len(reconstructed') = Len(reconstructed) + 1]_vars
    /\ [](Reconstructing =>
            /\ 1 <= i /\ i <= Len(raw_entities.value) + 1
            /\ Len(reconstructed) <= i - 1
            /\ pc # "reconstruct" =>
                  /\ i = Len(raw_entities.value) + 1
                  /\ Len(processed_entities) <= Len(raw_entities.value))
    /\ []((caller = "hf" /\ pc \in {"categorize", "done"} /\ raw_entities.kind = "list"
           /\ raw_entities.value = <<>>) => processed_entities = <<>>)

\* Three entities made two groups: the second, which ends before the first does, was
\* absorbed, the third began a new group, and one of the three has no end.
C12_Witness ==
    /\ Reconstructing /\ pc = "done"
    /\ Len(raw_entities.value) = 3 /\ Len(processed_entities) = 2
    /\ IsGroup(raw_entities.value, 1, 3)
    /\ EndOf(raw_entities.value[2]) < EndOf(raw_entities.value[1])
    /\ \E m \in 1..3 : "end" \notin DOMAIN raw_entities.value[m]

\* C13 as stated: for the same transcript and the same raw entity list, a successful
\* app.extract_medical_entities returns the five buckets that process_medical_text
\* returns, those of the entities that went through _reconstruct_entities.
C13_ServicePathReconstructs ==
    (caller = "app" /\ Succeeded /\ raw_entities.kind = "list") =>
        result.data = CategorizedResult(raw_entities.value, transcription)

(***************************************************************************)
(* Two interleaved calls of the core on one MedicalNERHF instance           *)
(*                                                                         *)
(* Each call runs _reconstruct_entities and the categorisation loop of     *)
(* process_medical_text on its own transcript and on a raw entity list of  *)
(* the heap; the two calls are handed either two list objects or the same  *)
(* one.  The instance holds the token, the url and the headers only, none  *)
(* of which the core reads or writes.                                      *)
(***************************************************************************)

CorePool == {Head1, Tail1, NoWord}

CoreLists == SeqsUpTo(CorePool, MaxCoreEntities)

Invocations == {1, 2}

\* The locals of a call on transcript text and on the list object ref of heap h.
NewCall(text, ref, h) ==
    [pc |-> "check", original_text |-> text, entities |-> ref, given |-> h[ref],
     i |-> 0, reconstructed |-> <<>>, processed_entities |-> None, k |-> 0,
     medical_entities |-> None, result |-> None]

ConcInit ==
    /\ caller = "hf"
    /\ transcription = Text1
    /\ response = [status_code |-> 200, json |-> ListPayload(<<>>), text |-> "[...]"]
    /\ pc = "core"
    /\ raw_entities = None
    /\ i = 0
    /\ reconstructed = <<>>
    /\ processed_entities = None
    /\ k = 0
    /\ medical_entities = None
    /\ result = None
    /\ heap \in {<<l>> : l \in CoreLists} \cup {<<l1, l2>> : l1 \in CoreLists, l2 \in CoreLists}
    /\ \E t1 \in Texts, t2 \in Texts :
          calls = [c \in Invocations |->
                     IF c = 1 THEN NewCall(t1, 1, heap) ELSE NewCall(t2, Len(heap), heap)]

single == <<caller, transcription, response, pc, raw_entities, i, reconstructed,
            processed_entities, k, medical_entities, result>>

\* _reconstruct_entities on an empty list: the list itself is returned.
CoreReconstructEmpty(c) ==
    /\ calls[c].pc = "check"
    /\ heap[calls[c].entities] = <<>>
    /\ calls' = [calls EXCEPT ![c].processed_entities = heap[calls[c].entities],
                              ![c].medical_entities = EmptyBuckets,
                              ![c].k = 1,
                              ![c].pc = "categorize"]
    /\ UNCHANGED <<heap, single>>

\* _reconstruct_entities on a non-empty list: reconstructed = [], i = 0.
CoreReconstructBegin(c) ==
    /\ calls[c].pc = "check"
    /\ heap[calls[c].entities] # <<>>
    /\ calls' = [calls EXCEPT ![c].reconstructed = <<>>, ![c].i = 1, ![c].pc = "reconstruct"]
    /\ UNCHANGED <<heap, single>>

\* One iteration of while i < len(entities).
CoreReconstructStep(c) ==
    /\ calls[c].pc = "reconstruct"
    /\ calls[c].i <= Len(heap[calls[c].entities])
    /\ LET g == ReconstructGroup(heap[calls[c].entities], calls[c].i, calls[c].original_text)
       IN  calls' = [calls EXCEPT ![c].reconstructed = Append(@, g.entity), ![c].i = g.j]
    /\ heap' = [heap EXCEPT ![calls[c].entities] =
                  EntitiesAfterGroup(@, calls[c].i, calls[c].original_text)]
    /\ UNCHANGED single

\* return reconstructed, and the fresh medical_entities dict.
CoreReconstructReturn(c) ==
    /\ calls[c].pc = "reconstruct"
    /\ calls[c].i > Len(heap[calls[c].entities])
    /\ calls' = [calls EXCEPT ![c].processed_entities = calls[c].reconstructed,
                              ![c].medical_entities = EmptyBuckets,
                              ![c].k = 1,
                              ![c].pc = "categorize"]
    /\ UNCHANGED <<heap, single>>

\* One iteration of for entity in processed_entities.
CoreCategorizeStep(c) ==
    /\ calls[c].pc = "categorize"
    /\ calls[c].k <= Len(calls[c].processed_entities)
    /\ calls' = [calls EXCEPT
                   ![c].medical_entities =
                       CategorizeEntity(@, calls[c].processed_entities[calls[c].k]),
                   ![c].k = @ + 1]
    /\ UNCHANGED <<heap, single>>

\* return medical_entities
CoreReturn(c) ==
    /\ calls[c].pc = "categorize"
    /\ calls[c].k > Len(calls[c].processed_entities)
    /\ calls' = [calls EXCEPT ![c].result = calls[c].medical_entities, ![c].pc = "done"]
    /\ UNCHANGED <<heap, single>>

ConcNext ==
    \E c \in Invocations :
        \/ CoreReconstructEmpty(c)
        \/ CoreReconstructBegin(c)
        \/ CoreReconstructStep(c)
        \/ CoreReconstructReturn(c)
        \/ CoreCategorizeStep(c)
        \/ CoreReturn(c)

Concurrent == ConcInit /\ [][ConcNext]_vars

\* C11: whatever the interleaving of two calls of the core on one instance, the raw
\* entity list each was handed, and every record in it, stays as it was handed over,
\* the five buckets of a call are created empty for that call, and each call returns
\* the result it returns when run alone on its transcript and its list.
C11_CallsDoNotInterfere ==
    \A c \in DOMAIN calls :
        /\ heap[calls[c].entities] = calls[c].given
        /\ (calls[c].pc = "categorize" /\ calls[c].k = 1) =>
              calls[c].medical_entities = EmptyBuckets
        /\ calls[c].pc = "done" =>
              calls[c].result = CategorizedResult(calls[c].given, calls[c].original_text)

\* Both calls have returned, they were handed the same list object, on different
\* transcripts, and reconstruction gave the two a different word for its first entity.
C11_Witness ==
    /\ DOMAIN calls = Invocations
    /\ Len(heap) = 1
    /\ calls[1].pc = "done" /\ calls[2].pc = "done"
    /\ calls[1].original_text # calls[2].original_text
    /\ calls[1].result # calls[2].result
    /\ Get(calls[1].processed_entities[1], "word", <<>>) # Get(heap[1][1], "word", <<>>)

====
